---- MODULE Spec2Model ----
(***************************************************************************)
(* The entity / context / effect runtime of crates/gpui3/src/app.rs.       *)
(*                                                                         *)
(* The state is the AppContext behind App's mutex (entity slots, window    *)
(* slots, pending_updates, pending_effects, observers), the mutex itself,  *)
(* the closures scheduled on the main-thread dispatcher, and, per thread,  *)
(* the stack of closures that are running against the AppContext.  A       *)
(* closure supplied by the caller is modelled by the calls it may make on  *)
(* the context it is handed; it ends by returning to the operation that    *)
(* called it, which then runs its own remaining statements.                *)
(***************************************************************************)
EXTENDS Integers, Sequences, FiniteSets, TLC

\* Bounds of the model.
MaxEntities == 3    \* entity slots, the unit entity included
MaxWindows == 1     \* window slots
MaxPending == 2     \* nested calls of AppContext::update
MaxQueue == 2       \* effects waiting in pending_effects
MaxObs == 2         \* calls of observe()
FlushEntities == 2  \* entity slots of the callers of SpecFlush

Threads == {"main", "worker"}
MainThread == "main"
NoThread == "free"

\* App::new inserts the unit entity first, so it gets the first key.
unit_entity_id == 1

\* Ids a caller may hold in a Handle, WeakHandle or window handle.  An id
\* without a slot belongs to a handle that does not refer to this store.
EntityIds == 1..MaxEntities
WindowIds == 1..MaxWindows

NoFault == [via |-> "", why |-> ""]

VARIABLES
    entities,         \* SlotMap<EntityId, Option<Box>>: "Some" / "None" per slot
    windows,          \* SlotMap<WindowId, Option<Window>>
    pending_updates,  \* usize
    pending_effects,  \* VecDeque<Effect>, Notify(id) written as id
    observers,        \* HashMap<EntityId, Handlers>; DOMAIN = the keys present
    lock,             \* holder of the Mutex<AppContext>, or NoThread
    tasks,            \* closures handed to the main-thread dispatcher
    stack,            \* per thread: the closures running against the context
    fault,            \* NoFault, or the panic that ended the process
    last_err,         \* the Err(..) the step just taken returned, or "none"
    raised,           \* history: the notify() calls not applied yet, in raise order
    nobs,             \* history: number of observe() calls so far
    off_main          \* history: dereferences of the platform off the main thread

vars == <<entities, windows, pending_updates, pending_effects, observers, lock,
          tasks, stack, fault, last_err, raised, nobs, off_main>>

appState == <<entities, windows, pending_updates, pending_effects, observers>>
history == <<raised, nobs, off_main>>

----------------------------------------------------------------------------
\* Frames of a thread's stack.

\* A notify() call: the entity, whether flush_effects was running, and the
\* handlers registered for the entity at that moment.
Raise(id, during, owed) == [id |-> id, during |-> during, owed |-> owed]
NoRaise == Raise(0, FALSE, {})

Frame(k, id) == [k |-> k, id |-> id, todo |-> <<>>, kept |-> <<>>, eff |-> NoRaise]

\* Closures that receive &mut AppContext.
AppKinds == {"cb", "wrap"}
\* Closures that receive a ModelContext bound to frame.id.
ModelKinds == {"build", "upd", "obs"}
\* Closures that receive a WindowContext over the AppContext.
WindowKinds == {"win", "wbuild"}
ClosureKinds == AppKinds \cup ModelKinds \cup WindowKinds

Top(t) == stack[t][Len(stack[t])]
Push(t, f) == [stack EXCEPT ![t] = Append(@, f)]
Pop(t) == [stack EXCEPT ![t] = SubSeq(@, 1, Len(@) - 1)]
ReplaceTop(t, f) == [stack EXCEPT ![t] = Append(SubSeq(@, 1, Len(@) - 1), f)]

\* Thread t is running a closure of one of the kinds and the process is alive.
In(t, kinds) ==
    /\ fault = NoFault
    /\ stack[t] # <<>>
    /\ Top(t).k \in kinds

\* A failed unwrap() is a fatal fault: the process ends and its state is gone.
\* Only the fault is kept.
Panic(via, why) ==
    /\ fault' = [via |-> via, why |-> why]
    /\ entities' = <<>>
    /\ windows' = <<>>
    /\ pending_updates' = 0
    /\ pending_effects' = <<>>
    /\ observers' = <<>>
    /\ lock' = NoThread
    /\ tasks' = <<>>
    /\ stack' = [t \in Threads |-> <<>>]
    /\ last_err' = "none"
    /\ raised' = <<>>
    /\ nobs' = 0
    /\ UNCHANGED off_main

----------------------------------------------------------------------------
\* The mutex of App(Arc<Mutex<AppContext>>).

\* A lock that never blocks.
LockFree_Always(t) == TRUE

LockFree(t) == lock = NoThread

\* The dispatcher of the platform knows the thread it serves.
is_main_thread(t) == t = MainThread

\* MainThreadOnly::borrow_on_main_thread: the accessor of the wrapped platform
\* object, which requires the caller to be on the main thread.
borrow_on_main_thread(t) == is_main_thread(t)

\* One dereference of the platform object by thread t.
Deref(t) == IF t = MainThread THEN off_main ELSE off_main + 1

\* App::run that reaches the platform object without the accessor.
AppRun_NoBorrow(t) ==
    /\ fault = NoFault
    /\ stack[t] = <<>>
    /\ LockFree(t)
    /\ off_main' = Deref(t)
    /\ lock' = t
    /\ stack' = Push(t, Frame("cb", 0))
    /\ UNCHANGED <<appState, tasks, fault, raised, nobs>>
    /\ last_err' = "none"

\* App::run: the platform is borrowed and run, it calls back, the callback
\* locks the context and hands it to on_finish_launching.
AppRun(t) ==
    /\ fault = NoFault
    /\ stack[t] = <<>>
    /\ borrow_on_main_thread(t)
    /\ LockFree(t)
    /\ off_main' = Deref(t)
    /\ lock' = t
    /\ stack' = Push(t, Frame("cb", 0))
    /\ UNCHANGED <<appState, tasks, fault, raised, nobs>>
    /\ last_err' = "none"

\* Code on a thread other than main that uses the App: it locks the context
\* and runs against it; it reaches the platform through spawn_on_main only.
LockContext(t) ==
    /\ fault = NoFault
    /\ ~is_main_thread(t)
    /\ stack[t] = <<>>
    /\ LockFree(t)
    /\ lock' = t
    /\ stack' = Push(t, Frame("cb", 0))
    /\ UNCHANGED <<appState, tasks, fault, history>>
    /\ last_err' = "none"

\* A callback that returns and leaves the context locked.
CallbackReturn_KeepGuard(t) ==
    /\ In(t, {"cb"})
    /\ stack' = Pop(t)
    /\ UNCHANGED <<appState, lock, tasks, fault, history>>
    /\ last_err' = "none"

\* The closure that holds the guard returns: the guard is dropped.
CallbackReturn(t) ==
    /\ In(t, {"cb"})
    /\ stack' = Pop(t)
    /\ lock' = NoThread
    /\ UNCHANGED <<appState, tasks, fault, history>>
    /\ last_err' = "none"

----------------------------------------------------------------------------
\* Context::entity for AppContext (ModelContext::entity delegates to it).

Entity(t) ==
    /\ In(t, ClosureKinds)
    /\ Len(entities) < MaxEntities
    /\ entities' = Append(entities, "None")
    /\ stack' = Push(t, Frame("build", Len(entities) + 1))
    /\ UNCHANGED <<windows, pending_updates, pending_effects, observers, lock,
                   tasks, fault, history>>
    /\ last_err' = "none"

\* entity() that returns the handle and leaves the slot empty.
EntityReturn_NoStore(t) ==
    /\ In(t, {"build"})
    /\ stack' = Pop(t)
    /\ UNCHANGED <<appState, lock, tasks, fault, history>>
    /\ last_err' = "none"

\* build_entity returned: the value is stored in the slot.
EntityReturn(t) ==
    /\ In(t, {"build"})
    /\ entities' = [entities EXCEPT ![Top(t).id] = "Some"]
    /\ stack' = Pop(t)
    /\ UNCHANGED <<windows, pending_updates, pending_effects, observers, lock,
                   tasks, fault, history>>
    /\ last_err' = "none"

\* update_entity without the unwrap() of the taken value: an empty slot is
\* handed to the closure as well.
update_entity_NoCheck(t, id, k, via) ==
    IF id \notin DOMAIN entities
    THEN Panic(via, "entity not found")
    ELSE /\ entities' = [entities EXCEPT ![id] = "None"]
         /\ stack' = Push(t, Frame(k, id))
         /\ UNCHANGED <<windows, pending_updates, pending_effects,
                        observers, lock, tasks, fault, history>>
         /\ last_err' = "none"

\* Context::update_entity for AppContext up to the call of the closure:
\* get_mut(id).unwrap().take().unwrap(), then the closure runs as a frame of
\* kind k.
update_entity(t, id, k, via) ==
    IF id \notin DOMAIN entities
    THEN Panic(via, "entity not found")
    ELSE IF entities[id] = "None"
         THEN Panic(via, "entity checked out")
         ELSE /\ entities' = [entities EXCEPT ![id] = "None"]
              /\ stack' = Push(t, Frame(k, id))
              /\ UNCHANGED <<windows, pending_updates, pending_effects,
                             observers, lock, tasks, fault, history>>
              /\ last_err' = "none"

\* Handle::update
HandleUpdate(t, id) ==
    /\ In(t, ClosureKinds)
    /\ id \in EntityIds
    /\ update_entity(t, id, "upd", "Handle::update")

\* update_entity without the replace() after the closure.
UpdateEntityReturn_NoReplace(t) ==
    /\ In(t, {"upd"})
    /\ stack' = Pop(t)
    /\ UNCHANGED <<entities, windows, pending_updates, pending_effects,
                   observers, lock, tasks, fault, history>>
    /\ last_err' = "none"

\* The update closure returned: the value is put back.
UpdateEntityReturn(t) ==
    /\ In(t, {"upd"})
    /\ entities' = [entities EXCEPT ![Top(t).id] = "Some"]
    /\ stack' = Pop(t)
    /\ UNCHANGED <<windows, pending_updates, pending_effects, observers, lock,
                   tasks, fault, history>>
    /\ last_err' = "none"

\* WeakHandle::upgrade: Some(Handle) as {id}, None as {}.
upgrade(id) == {id}

\* WeakHandle::update
WeakUpdate(t, id) ==
    /\ In(t, ClosureKinds)
    /\ id \in EntityIds
    /\ IF upgrade(id) # {}
       THEN update_entity(t, id, "upd", "WeakHandle::update")
       ELSE /\ last_err' = "entity released"
            /\ UNCHANGED <<appState, lock, tasks, stack, fault, history>>

----------------------------------------------------------------------------
\* ModelContext::notify and ModelContext::observe.

\* notify() that pushes at the front of the queue.
push_front(q, e) == <<e>> \o q

push_back(q, e) == Append(q, e)

\* A flush_effects call is on thread t's stack.
Flushing(t) == \E i \in 1..Len(stack[t]) : stack[t][i].k = "flush"

\* The serial numbers of the handlers registered for id: those in the
\* registry and those that a running apply_notify_effect(id) has taken out.
Serials(hs) == {hs[i].n : i \in 1..Len(hs)}
Frames == UNION {{stack[t][i] : i \in 1..Len(stack[t])} : t \in Threads}
Registered(id) ==
    (IF id \in DOMAIN observers THEN Serials(observers[id]) ELSE {})
    \cup UNION {Serials(f.todo) \cup Serials(f.kept) :
                  f \in {g \in Frames : g.k = "apply" /\ g.id = id}}

\* notify() that flushes the queue at once.
Notify_Flush(t) ==
    /\ In(t, ModelKinds)
    /\ Len(pending_effects) < MaxQueue
    /\ pending_effects' = push_back(pending_effects, Top(t).id)
    /\ raised' = Append(raised, Raise(Top(t).id, Flushing(t), Registered(Top(t).id)))
    /\ stack' = Push(t, Frame("flush", 0))
    /\ UNCHANGED <<entities, windows, pending_updates, observers, lock, tasks,
                   fault, nobs, off_main>>
    /\ last_err' = "none"

Notify(t) ==
    /\ In(t, ModelKinds)
    /\ Len(pending_effects) < MaxQueue
    /\ pending_effects' = push_back(pending_effects, Top(t).id)
    /\ raised' = Append(raised, Raise(Top(t).id, Flushing(t), Registered(Top(t).id)))
    /\ UNCHANGED <<entities, windows, pending_updates, observers, lock, tasks,
                   stack, fault, nobs, off_main>>
    /\ last_err' = "none"

\* apply_notify_effect(id) is running on thread t.
InPass(t, id) ==
    \E i \in 1..Len(stack[t]) : stack[t][i].k = "apply" /\ stack[t][i].id = id

\* observers.entry(id).or_default().push(h)
entry_push(obs, id, h) ==
    IF id \in DOMAIN obs
    THEN [obs EXCEPT ![id] = Append(@, h)]
    ELSE [k \in DOMAIN obs \cup {id} |-> IF k = id THEN <<h>> ELSE obs[k]]

Observe(t, id) ==
    /\ In(t, ModelKinds)
    /\ id \in DOMAIN entities
    /\ nobs < MaxObs
    /\ observers' = entry_push(observers, id,
                        [this |-> Top(t).id, handle |-> id, n |-> nobs + 1,
                         inpass |-> InPass(t, id)])
    /\ nobs' = nobs + 1
    /\ UNCHANGED <<entities, windows, pending_updates, pending_effects, lock,
                   tasks, stack, fault, raised, off_main>>
    /\ last_err' = "none"

----------------------------------------------------------------------------
\* Windows and the main-thread dispatcher.

\* MainThreadOnly::read: the closure is handed to the dispatcher of the main
\* thread, which runs it later.
read(q, c) == Append(q, c)

\* AppContext::spawn_on_main: f is wrapped in a closure that locks the
\* context again, and the closure is handed to MainThreadOnly::read.
spawn_on_main(q, f) == read(q, f)

\* AppContext::open_window: the slot is allocated empty and the construction
\* closure is scheduled.
OpenWindow(t) ==
    /\ In(t, AppKinds \cup WindowKinds)
    /\ Len(windows) < MaxWindows
    /\ windows' = Append(windows, "None")
    /\ tasks' = spawn_on_main(tasks, [k |-> "wbuild", id |-> Len(windows) + 1])
    /\ UNCHANGED <<entities, pending_updates, pending_effects, observers, lock,
                   stack, fault, history>>
    /\ last_err' = "none"

\* The dispatcher runs a scheduled closure: it locks the context and calls f.
\* For open_window f creates the window and calls build_root_view.
RunTask(t) ==
    /\ fault = NoFault
    /\ is_main_thread(t)
    /\ stack[t] = <<>>
    /\ tasks # <<>>
    /\ LockFree(t)
    /\ off_main' = Deref(t)
    /\ lock' = t
    /\ tasks' = Tail(tasks)
    /\ stack' = Push(t, Frame(Head(tasks).k, Head(tasks).id))
    /\ UNCHANGED <<appState, fault, raised, nobs>>
    /\ last_err' = "none"

\* A construction closure that resolves the future without storing the window.
OpenWindowBuilt_NoStore(t) ==
    /\ In(t, {"wbuild"})
    /\ stack' = Pop(t)
    /\ lock' = NoThread
    /\ UNCHANGED <<appState, tasks, fault, history>>
    /\ last_err' = "none"

\* build_root_view returned: the window is stored, f returns, the guard is
\* dropped.
OpenWindowBuilt(t) ==
    /\ In(t, {"wbuild"})
    /\ windows' = [windows EXCEPT ![Top(t).id] = "Some"]
    /\ stack' = Pop(t)
    /\ lock' = NoThread
    /\ UNCHANGED <<entities, pending_updates, pending_effects, observers,
                   tasks, fault, history>>
    /\ last_err' = "none"

\* update_window that unwraps the lookup instead of returning the error.
UpdateWindow_Unwrap(t, w) ==
    /\ In(t, AppKinds \cup WindowKinds)
    /\ w \in WindowIds
    /\ IF w \notin DOMAIN windows \/ windows[w] = "None"
       THEN Panic("update_window", "window not found")
       ELSE /\ windows' = [windows EXCEPT ![w] = "None"]
            /\ stack' = Push(t, Frame("win", w))
            /\ UNCHANGED <<entities, pending_updates, pending_effects,
                           observers, lock, tasks, fault, history>>
            /\ last_err' = "none"

\* update_window that returns the error for an empty slot as well.
UpdateWindow_ErrOnEmpty(t, w) ==
    /\ In(t, AppKinds \cup WindowKinds)
    /\ w \in WindowIds
    /\ IF w \notin DOMAIN windows \/ windows[w] = "None"
       THEN /\ last_err' = "window not found"
            /\ UNCHANGED <<appState, lock, tasks, stack, fault, history>>
       ELSE /\ windows' = [windows EXCEPT ![w] = "None"]
            /\ stack' = Push(t, Frame("win", w))
            /\ UNCHANGED <<entities, pending_updates, pending_effects,
                           observers, lock, tasks, fault, history>>
            /\ last_err' = "none"

\* AppContext::update_window up to the call of the closure.
UpdateWindow(t, w) ==
    /\ In(t, AppKinds \cup WindowKinds)
    /\ w \in WindowIds
    /\ IF w \notin DOMAIN windows
       THEN /\ last_err' = "window not found"
            /\ UNCHANGED <<appState, lock, tasks, stack, fault, history>>
       ELSE IF windows[w] = "None"
            THEN Panic("update_window", "window checked out")
            ELSE /\ windows' = [windows EXCEPT ![w] = "None"]
                 /\ stack' = Push(t, Frame("win", w))
                 /\ UNCHANGED <<entities, pending_updates, pending_effects,
                                observers, lock, tasks, fault, history>>
                 /\ last_err' = "none"

\* The window closure returned: the window is marked dirty and put back.
UpdateWindowReturn(t) ==
    /\ In(t, {"win"})
    /\ IF Top(t).id \notin DOMAIN windows
       THEN /\ last_err' = "window not found"
            /\ UNCHANGED windows
       ELSE /\ windows' = [windows EXCEPT ![Top(t).id] = "Some"]
            /\ last_err' = "none"
    /\ stack' = Pop(t)
    /\ UNCHANGED <<entities, pending_updates, pending_effects, observers, lock,
                   tasks, fault, history>>

----------------------------------------------------------------------------
\* AppContext::update, flush_effects and apply_notify_effect.

\* AppContext::update up to the call of the closure.
Update(t) ==
    /\ In(t, AppKinds)
    /\ pending_updates < MaxPending
    /\ pending_updates' = pending_updates + 1
    /\ stack' = Push(t, Frame("wrap", 0))
    /\ UNCHANGED <<entities, windows, pending_effects, observers, lock, tasks,
                   fault, history>>
    /\ last_err' = "none"

\* A wrapper that calls flush_effects at every exit.
UpdateReturn_AlwaysFlush(t) ==
    /\ In(t, {"wrap"})
    /\ pending_updates' = pending_updates - 1
    /\ stack' = ReplaceTop(t, Frame("flush", 0))
    /\ UNCHANGED <<entities, windows, pending_effects, observers, lock, tasks,
                   fault, history>>
    /\ last_err' = "none"

\* The closure returned: the counter goes down and, at zero, flush_effects
\* is called.
UpdateReturn(t) ==
    /\ In(t, {"wrap"})
    /\ pending_updates' = pending_updates - 1
    /\ stack' = IF pending_updates - 1 = 0
                THEN ReplaceTop(t, Frame("flush", 0))
                ELSE Pop(t)
    /\ UNCHANGED <<entities, windows, pending_effects, observers, lock, tasks,
                   fault, history>>
    /\ last_err' = "none"

\* A single pass: the loop also ends at the first effect that was raised
\* while it was running.
LoopEnds_OnePass(t) ==
    \/ pending_effects = <<>>
    \/ \E i \in 1..Len(raised) :
          /\ raised[i].id = Head(pending_effects)
          /\ raised[i].during
          /\ \A j \in 1..(i - 1) : raised[j].id # raised[i].id

\* while let Some(effect) = self.pending_effects.pop_front()
LoopEnds(t) == pending_effects = <<>>

\* observers.remove(&id)
remove(obs, id) == [k \in DOMAIN obs \ {id} |-> obs[k]]

\* observers.insert(id, handlers)
insert(obs, id, handlers) ==
    [k \in DOMAIN obs \cup {id} |-> IF k = id THEN handlers ELSE obs[k]]

\* pending_effects.pop_front()
front(q) == Head(q)

\* A pop that leaves the effect in the queue.
pop_front_Peek(q) == q

\* A pop that takes every queued effect of the same entity with it.
pop_front_Coalesce(q) == SelectSeq(Tail(q), LAMBDA e : e # Head(q))

pop_front(q) == Tail(q)

\* The oldest raise of entity id that has not been applied, and the raises
\* left once it has been.
Oldest(rs, id) ==
    IF \E i \in 1..Len(rs) : rs[i].id = id
    THEN CHOOSE i \in 1..Len(rs) : rs[i].id = id /\ \A j \in 1..(i - 1) : rs[j].id # id
    ELSE 0
Applied(rs, id) ==
    IF Oldest(rs, id) = 0
    THEN rs
    ELSE SubSeq(rs, 1, Oldest(rs, id) - 1) \o SubSeq(rs, Oldest(rs, id) + 1, Len(rs))

\* One turn of the loop of flush_effects: the front effect is popped and
\* apply_notify_effect takes the handlers of its entity out of the registry.
FlushEffects(t) ==
    /\ In(t, {"flush"})
    /\ IF LoopEnds(t)
       THEN /\ stack' = Pop(t)
            /\ UNCHANGED <<pending_effects, observers, raised>>
       ELSE LET id == front(pending_effects) IN
            /\ pending_effects' = pop_front(pending_effects)
            /\ raised' = Applied(raised, id)
            /\ IF id \in DOMAIN observers
               THEN /\ observers' = remove(observers, id)
                    /\ stack' = Push(t, [k |-> "apply", id |-> id,
                                         todo |-> observers[id], kept |-> <<>>,
                                         eff |-> IF Oldest(raised, id) = 0
                                                 THEN NoRaise
                                                 ELSE raised[Oldest(raised, id)]])
               ELSE UNCHANGED <<observers, stack>>
    /\ UNCHANGED <<entities, windows, pending_updates, lock, tasks, fault, nobs,
                   off_main>>
    /\ last_err' = "none"

\* handlers.retain(|handler| handler(self)), one handler: the closure that
\* observe registered upgrades both weak handles and updates the observer.
InvokeHandler(t) ==
    /\ In(t, {"apply"})
    /\ Top(t).todo # <<>>
    /\ IF upgrade(Head(Top(t).todo).this) # {} /\ upgrade(Head(Top(t).todo).handle) # {}
       THEN update_entity(t, Head(Top(t).todo).this, "obs", "handler")
       ELSE /\ stack' = ReplaceTop(t, [Top(t) EXCEPT !.todo = Tail(@)])
            /\ UNCHANGED <<appState, lock, tasks, fault, history>>
            /\ last_err' = "none"

\* on_notify returned: the observer is put back and the handler returns true,
\* so retain keeps it.
HandlerReturn(t) ==
    /\ In(t, {"obs"})
    /\ entities' = [entities EXCEPT ![Top(t).id] = "Some"]
    /\ LET pass == stack[t][Len(stack[t]) - 1]
       IN stack' = [stack EXCEPT ![t] =
                       Append(SubSeq(@, 1, Len(@) - 2),
                              [pass EXCEPT !.todo = Tail(pass.todo),
                                           !.kept = Append(pass.kept,
                                                           Head(pass.todo))])]
    /\ UNCHANGED <<windows, pending_updates, pending_effects, observers, lock,
                   tasks, fault, history>>
    /\ last_err' = "none"

\* The handlers registered during the pass are dropped.
extend_Drop(handlers, new_handlers) == handlers

\* The handlers registered during the pass are put first.
extend_Front(handlers, new_handlers) == new_handlers \o handlers

\* handlers.extend(new_handlers)
extend(handlers, new_handlers) == handlers \o new_handlers

\* The end of apply_notify_effect: the handlers registered for the entity
\* during the pass are taken out, appended to the retained ones, and the list
\* is stored.
ApplyFinish(t) ==
    /\ In(t, {"apply"})
    /\ Top(t).todo = <<>>
    /\ observers' =
          insert(observers, Top(t).id,
                 IF Top(t).id \in DOMAIN observers
                 THEN extend(Top(t).kept, observers[Top(t).id])
                 ELSE Top(t).kept)
    /\ stack' = Pop(t)
    /\ UNCHANGED <<entities, windows, pending_updates, pending_effects, lock,
                   tasks, fault, history>>
    /\ last_err' = "none"

----------------------------------------------------------------------------
Init ==
    /\ entities = <<"Some">>
    /\ windows = <<>>
    /\ pending_updates = 0
    /\ pending_effects = <<>>
    /\ observers = <<>>
    /\ lock = NoThread
    /\ tasks = <<>>
    /\ stack = [t \in Threads |-> <<>>]
    /\ fault = NoFault
    /\ last_err = "none"
    /\ raised = <<>>
    /\ nobs = 0
    /\ off_main = 0

\* Callers that use entities and windows and neither notify nor observe.
NextSlots ==
    \E t \in Threads :
        \/ AppRun(t)
        \/ LockContext(t)
        \/ CallbackReturn(t)
        \/ Entity(t)
        \/ EntityReturn(t)
        \/ \E id \in EntityIds : HandleUpdate(t, id)
        \/ \E id \in EntityIds : WeakUpdate(t, id)
        \/ UpdateEntityReturn(t)
        \/ OpenWindow(t)
        \/ RunTask(t)
        \/ OpenWindowBuilt(t)
        \/ \E w \in WindowIds : UpdateWindow(t, w)
        \/ UpdateWindowReturn(t)

SpecSlots == Init /\ [][NextSlots]_vars

\* The deepest stack of closures: the callback, one closure per entity slot
\* and one per window slot.
MaxDepth == 1 + MaxEntities + MaxWindows

\* A closure of thread t returns to the operation that called it.
Return(t) ==
    \/ CallbackReturn(t)
    \/ EntityReturn(t)
    \/ UpdateEntityReturn(t)
    \/ OpenWindowBuilt(t)
    \/ UpdateWindowReturn(t)

\* The callers' closures return, at whatever depth they run, and the
\* dispatcher of the main thread gets the mutex when it is free again and
\* again.
Fairness ==
    /\ SF_vars(RunTask(MainThread))
    /\ \A t \in Threads : \A d \in 1..MaxDepth :
          SF_vars(Return(t) /\ Len(stack[t]) = d)

SpecFair == SpecSlots /\ Fairness

\* Everything the callers of the public operations can do.
Next ==
    \/ NextSlots
    \/ \E t \in Threads :
        \/ Notify(t)
        \/ \E id \in EntityIds : Observe(t, id)

Spec == Init /\ [][Next]_vars

\* The entity operations of one thread together with AppContext::update, the
\* wrapper that no operation of the file calls: the caller's closure may
\* enter it wherever it holds the &mut AppContext.
NextUpdate ==
    \E t \in {MainThread} :
        \/ AppRun(t)
        \/ CallbackReturn(t)
        \/ Entity(t)
        \/ EntityReturn(t)
        \/ \E id \in EntityIds : HandleUpdate(t, id)
        \/ \E id \in EntityIds : WeakUpdate(t, id)
        \/ UpdateEntityReturn(t)
        \/ Notify(t)
        \/ \E id \in EntityIds : Observe(t, id)
        \/ Update(t)
        \/ UpdateReturn(t)
        \/ FlushEffects(t)
        \/ InvokeHandler(t)
        \/ HandlerReturn(t)
        \/ ApplyFinish(t)

SpecUpdate == Init /\ [][NextUpdate]_vars

\* The running closure of thread t returns, or the engine takes its next step.
Proceed(t) ==
    \/ CallbackReturn(t)
    \/ EntityReturn(t)
    \/ UpdateEntityReturn(t)
    \/ UpdateReturn(t)
    \/ FlushEffects(t)
    \/ InvokeHandler(t)
    \/ HandlerReturn(t)
    \/ ApplyFinish(t)

\* NextUpdate for callers that use at most FlushEntities entity slots.
NextFlush == NextUpdate /\ Len(entities') <= FlushEntities

\* Every closure returns and the engine goes on, at whatever depth.  A
\* closure that can start further closures may do so again and again, so its
\* return needs strong fairness.  flush_effects and apply_notify_effect run at
\* depths 2 and 3 and start one closure at a time, and a closure at the
\* greatest depth (the callback, flush_effects, apply_notify_effect and one
\* closure per entity) can start none.
FairnessFlush ==
    /\ \A d \in {2, 3, FlushEntities + 3} :
          WF_vars(Proceed(MainThread) /\ Len(stack[MainThread]) = d)
    /\ \A d \in 4..(FlushEntities + 2) :
          SF_vars(Proceed(MainThread) /\ Len(stack[MainThread]) = d)

SpecFlush == Init /\ [][NextFlush]_vars /\ FairnessFlush

----------------------------------------------------------------------------
\* Properties.

\* The closures running for entity id: a build or update closure that holds
\* the ModelContext of id.
Holders(id) ==
    {p \in UNION {{<<t, i>> : i \in 1..Len(stack[t])} : t \in Threads} :
        /\ stack[p[1]][p[2]].k \in ModelKinds
        /\ stack[p[1]][p[2]].id = id}

\* No update, build or window closure is running.
UpdatesDone == \A f \in Frames : f.k = "cb"

\* C1. Checkout discipline: in every state of every sequence of nested
\* entity() and update_entity() calls, a slot is None exactly while its own
\* build or update closure is running; so each slot a call took is Some again
\* once the call has returned, whatever its closure created or updated.
C1_CheckoutDiscipline ==
    fault = NoFault =>
        \A id \in DOMAIN entities :
            Cardinality(Holders(id)) = IF entities[id] = "None" THEN 1 ELSE 0

\* The build closure of one entity has created another entity: ids are given
\* in order, so the later slot was allocated while the earlier closure ran; the
\* inner call has returned and its slot is Some, the outer slot is still None.
C1_Witness ==
    \E t \in Threads :
        /\ Len(stack[t]) = 2
        /\ Top(t).k = "build"
        /\ Top(t).id + 1 \in DOMAIN entities
        /\ entities[Top(t).id] = "None"
        /\ entities[Top(t).id + 1] = "Some"

\* The two parts of C6: no two closures of the same entity are
\* ever nested in one another, and a Handle::update or WeakHandle::update on an
\* entity whose slot is empty ends in the fatal fault and starts no closure.
C6_NoNestedSameEntity == \A id \in EntityIds : Cardinality(Holders(id)) <= 1

C6_ReentrantStep ==
    \A t \in Threads, id \in DOMAIN entities :
        (/\ entities[id] = "None"
         /\ HandleUpdate(t, id) \/ WeakUpdate(t, id))
        => /\ fault'.why = "entity checked out"
           /\ stack'[t] = <<>>

\* C6. Reentrant access to the same entity fails loudly: in every state no
\* two closures of one entity are nested, and every step that updates an entity
\* whose slot is empty ends in the fault without starting the closure.
C6_ReentrantFaults == [](C6_NoNestedSameEntity) /\ [][C6_ReentrantStep]_vars

\* The process has ended in the fault of a reentrant update.
C6_Witness == fault.why = "entity checked out"

\* The step of C7: update_window on an id that has no slot
\* returns the 'window not found' error, and the step that returns it changes
\* nothing: no closure is started, no slot is taken, counter, queue, registry,
\* lock and dispatcher are as before, and the process is alive.
C7_Step ==
    /\ \A t \in Threads, w \in WindowIds :
          (w \notin DOMAIN windows /\ UpdateWindow(t, w))
          => last_err' = "window not found"
    /\ last_err' = "window not found"
       => /\ UNCHANGED <<appState, lock, tasks, stack, fault, history>>
          /\ fault = NoFault

\* C7. Window absence is recoverable: every step of update_window on a
\* missing window returns 'window not found' and leaves the state as it was.
C7_WindowAbsenceRecoverable == [][C7_Step]_vars

\* The error has just been returned to a closure that goes on running.
C7_Witness ==
    /\ last_err = "window not found"
    /\ \E t \in Threads : stack[t] # <<>>
    /\ fault = NoFault

\* C8. Single-writer serialization: at most one thread is inside a closure
\* that runs against the AppContext, and that thread holds the mutex.
C8_SingleWriter ==
    /\ Cardinality({t \in Threads : stack[t] # <<>>}) <= 1
    /\ \A t \in Threads : stack[t] # <<>> => lock = t

\* The worker thread is inside an update while a closure scheduled for the
\* main thread waits for the mutex.
C8_Witness ==
    /\ tasks # <<>>
    /\ \E t \in Threads \ {MainThread} :
          /\ Len(stack[t]) >= 2
          /\ lock = t

\* C2. Notification ordering: once the outermost update has returned to the
\* callback, no notify() raised inside it is still owed to a handler that was
\* registered for the entity when it was raised: those handlers have run.
C2_NotifiedOnceUpdatesReturn ==
    (fault = NoFault /\ UpdatesDone)
    => \A i \in 1..Len(raised) : raised[i].owed = {}

\* C3. Every mutation path runs inside the update wrapper: pending_updates is
\* at least 1 while a build, update or window closure runs, and once the
\* outermost call has returned the effect queue is empty.
C3_MutationsInsideUpdate ==
    /\ \A f \in Frames :
          f.k \in ModelKinds \cup WindowKinds => pending_updates >= 1
    /\ (fault = NoFault /\ UpdatesDone) => pending_effects = <<>>

\* C10. Weak handles validate liveness: WeakHandle::update on an entity that
\* has no slot returns the 'entity released' error and never ends in a fault.
C10_WeakUpdateNeverFaults ==
    ~(fault.via = "WeakHandle::update" /\ fault.why = "entity not found")

\* The step of C4: the step in which flush_effects returns leaves
\* pending_effects empty and no raise unapplied, the raises made by handlers
\* while it was draining included: their entities' handlers were run by the
\* same flush_effects call.
C4_FlushReturns ==
    \A t \in Threads :
        (/\ In(t, {"flush"})
         /\ fault' = NoFault
         /\ Len(stack'[t]) < Len(stack[t]))
        => /\ pending_effects' = <<>>
           /\ raised' = <<>>

\* C4. Fixed-point flush: every step in which flush_effects returns leaves
\* the queue empty and every raise applied, those made while draining included.
C4_FixedPointFlush == [][C4_FlushReturns]_vars

\* A handler runs for a Notify that another handler raised during this same
\* flush_effects call, for a different entity.
C4_Witness ==
    \E t \in Threads :
        /\ Len(stack[t]) >= 4
        /\ stack[t][2].k = "flush"
        /\ stack[t][3].k = "apply"
        /\ stack[t][3].eff.during
        /\ stack[t][4].k = "obs"
        /\ stack[t][4].id # stack[t][3].id

\* All the handlers that a running apply_notify_effect holds.
HeldSerials ==
    UNION {Serials(f.todo) \cup Serials(f.kept) : f \in {g \in Frames : g.k = "apply"}}

RegistrySerials == UNION {Serials(observers[id]) : id \in DOMAIN observers}

\* C5. Handler survival: a handler registered for A while apply_notify_effect(A)
\* runs is put in A's list in the registry and is not among the handlers that
\* the pass invokes; and no handler that was ever registered is lost: each is
\* in the registry under the entity it observes or held by a running pass, so
\* it is in A's list after the pass.
C5_HandlerSurvival ==
    fault = NoFault =>
        /\ \A f \in Frames :
              (f.k = "apply" /\ f.id \in DOMAIN observers)
              => /\ \A i \in 1..Len(observers[f.id]) : observers[f.id][i].inpass
                 /\ Serials(observers[f.id]) \cap (Serials(f.todo) \cup Serials(f.kept)) = {}
        /\ RegistrySerials \cup HeldSerials = 1..nobs
        /\ \A id \in DOMAIN observers :
              \A i \in 1..Len(observers[id]) : observers[id][i].handle = id

\* A handler that was registered for the entity during an earlier pass of the
\* same entity is being invoked by a later pass.
C5_Witness ==
    \E t \in Threads :
        /\ Len(stack[t]) >= 4
        /\ stack[t][3].k = "apply"
        /\ stack[t][4].k = "obs"
        /\ Head(stack[t][3].todo).inpass
        /\ Head(stack[t][3].todo).handle = stack[t][3].id

\* C9. FIFO delivery: pending_effects holds exactly the raises that have not
\* been applied, in the order in which notify() raised them, and flush_effects
\* applies the front one; so an effect raised while flushing comes after all
\* that were queued before it.
C9_FifoDelivery ==
    pending_effects = [i \in 1..Len(raised) |-> raised[i].id]

\* Two effects for different entities wait, the later one raised by a handler
\* during the flush.
C9_Witness ==
    /\ Len(pending_effects) = 2
    /\ pending_effects[1] # pending_effects[2]
    /\ ~raised[1].during
    /\ raised[2].during

----------------------------------------------------------------------------
Scheduled(w) == \E i \in 1..Len(tasks) : tasks[i].id = w

\* C12. Every future of spawn_on_main is resolved: a closure that open_window
\* scheduled is eventually run to its end by the main thread, which stores the
\* window and resolves the future, unless the process ends in a fault first;
\* it never waits for the mutex for ever.
C12_FutureResolved ==
    \A w \in WindowIds :
        Scheduled(w) ~> (\/ fault # NoFault
                         \/ w \in DOMAIN windows /\ windows[w] = "Some")

\* The scheduled closure has run to its end: the window is stored and the
\* main thread has released the mutex.
C12_Witness ==
    /\ fault = NoFault
    /\ tasks = <<>>
    /\ stack[MainThread] = <<>>
    /\ \E w \in DOMAIN windows : windows[w] = "Some"

\* The closures that hold window w: its construction closure, waiting or
\* running, or the closure of an update_window.
WindowHeld(w) ==
    \/ Scheduled(w)
    \/ \E f \in Frames : f.k \in WindowKinds /\ f.id = w

C13_SlotState ==
    fault = NoFault =>
        \A w \in DOMAIN windows : (windows[w] = "None") <=> WindowHeld(w)

C13_Step ==
    /\ \A t \in Threads :
          OpenWindow(t) => /\ DOMAIN windows' = DOMAIN windows \cup {Len(windows) + 1}
                           /\ windows'[Len(windows) + 1] = "None"
                           /\ \A w \in DOMAIN windows : windows'[w] = windows[w]
    /\ \A t \in Threads :
          OpenWindowBuilt(t) => /\ windows'[Top(t).id] = "Some"
                                /\ stack'[t] = <<>>
    /\ \A t \in Threads, w \in DOMAIN windows :
          (windows[w] = "Some" /\ UpdateWindow(t, w))
          => /\ fault' = NoFault
             /\ last_err' = "none"
             /\ stack'[t] = Append(stack[t], Frame("win", w))

C14_AllSlotsSome ==
    \A t \in Threads :
        /\ \A i \in 1..Len(stack[t]) :
              stack[t][i].k = "flush"
              => \A j \in 1..(i - 1) : stack[t][j].k \notin ModelKinds
        /\ In(t, {"apply"})
           => \A id \in DOMAIN entities : entities[id] = "Some"

\* The call of a handler takes the observing entity out and does not fault.
C14_HandlerStep ==
    \A t \in Threads :
        InvokeHandler(t)
        => /\ fault' = NoFault
           /\ Len(stack'[t]) = Len(stack[t]) + 1
           /\ stack'[t][Len(stack'[t])].k = "obs"

\* C14. Observers never see a half-built or checked-out entity: whenever the
\* flush engine is about to invoke a notification handler every entity slot is
\* Some, no build or update closure is in progress under the flush, and the
\* handler's checkout of the observing entity does not fault.
C14_ObserversSeeWholeEntities == [](C14_AllSlotsSome) /\ [][C14_HandlerStep]_vars

\* A handler is about to be invoked for an entity that a build closure
\* notified: the closure has returned and the slot is Some.
C14_Witness ==
    \E t \in Threads :
        /\ In(t, {"apply"})
        /\ Top(t).todo # <<>>
        /\ Top(t).id # unit_entity_id
        /\ entities[Top(t).id] = "Some"

\* The calls of AppContext::update and of flush_effects that are on the
\* stacks.
Calls(k) ==
    Cardinality({p \in UNION {{<<t, i>> : i \in 1..Len(stack[t])} : t \in Threads} :
                    stack[p[1]][p[2]].k = k})

C15_CounterState ==
    /\ pending_updates \in Nat
    /\ pending_updates = Calls("wrap")

C15_FlushStart ==
    fault' = NoFault =>
        /\ Calls("flush")' > Calls("flush")
           => (pending_updates = 1 /\ pending_updates' = 0)
        /\ (pending_updates = 1 /\ pending_updates' = 0)
           => Calls("flush")' = Calls("flush") + 1

\* C15. Reentrancy counter: pending_updates is the number of calls of the
\* update wrapper on the stack, so it is never negative and is zero when no
\* wrapper is running; flush_effects is started exactly in the step in which
\* the counter returns to zero, never while it is greater than zero.
C15_ReentrancyCounter == [](C15_CounterState) /\ [][C15_FlushStart]_vars

\* Two nested calls of the wrapper with an effect that waits: the inner exit
\* must not flush it.
C15_Witness ==
    /\ pending_updates = 2
    /\ pending_effects # <<>>
    /\ \E t \in Threads : In(t, {"wrap"})

C16_NotifyStep ==
    \A t \in Threads :
        Notify(t)
        => /\ Len(pending_effects') = Len(pending_effects) + 1
           /\ pending_effects'[Len(pending_effects')] = Top(t).id
           /\ SubSeq(pending_effects', 1, Len(pending_effects)) = pending_effects
           /\ UNCHANGED <<entities, windows, observers, pending_updates,
                          stack, lock, tasks, fault>>

\* C16. notify() only enqueues: every call of notify appends one
\* Notify(own entity id) at the back of pending_effects and changes nothing
\* else: no handler is run, and the entity slots, the window slots, the
\* registry and pending_updates are as before.
C16_NotifyOnlyEnqueues == [][C16_NotifyStep]_vars

\* An entity that has a registered handler has notified behind an effect that
\* was waiting already: the effect is last in the queue and the entity's
\* closure is still running.
C16_Witness ==
    \E t \in Threads :
        /\ In(t, ModelKinds)
        /\ Len(pending_effects) >= 2
        /\ pending_effects[Len(pending_effects)] = Top(t).id
        /\ Top(t).id \in DOMAIN observers

\* The handlers of a list are in the order in which observe() registered them.
InRegistrationOrder(hs) ==
    \A i \in 1..Len(hs) : \A j \in (i + 1)..Len(hs) : hs[i].n < hs[j].n

\* The handlers of entity id in the order in which apply_notify_effect leaves
\* them: those a running pass has kept, those it has still to invoke, then
\* those in the registry.
HandlerList(id) ==
    LET passes == {f \in Frames : f.k = "apply" /\ f.id = id}
        held == IF passes = {} THEN <<>>
                ELSE LET f == CHOOSE g \in passes : TRUE IN f.kept \o f.todo
    IN held \o (IF id \in DOMAIN observers THEN observers[id] ELSE <<>>)

C17_ListsOrdered ==
    fault = NoFault => \A id \in EntityIds : InRegistrationOrder(HandlerList(id))

C17_PassStep ==
    \A t \in Threads :
        /\ (FlushEffects(t) /\ ~LoopEnds(t))
           => LET id == front(pending_effects) IN
              /\ \A k \in DOMAIN observers \ {id} :
                    k \in DOMAIN observers' /\ observers'[k] = observers[k]
              /\ id \in DOMAIN observers
                 => /\ stack'[t][Len(stack'[t])].todo = observers[id]
                    /\ stack'[t][Len(stack'[t])].kept = <<>>
        /\ InvokeHandler(t)
           => (fault' = NoFault
               => /\ stack'[t][Len(stack'[t])].id = Head(Top(t).todo).this
                  /\ UNCHANGED observers)
        /\ HandlerReturn(t)
           => LET before == stack[t][Len(stack[t]) - 1]
                  after == stack'[t][Len(stack'[t])]
              IN /\ after.kept = Append(before.kept, Head(before.todo))
                 /\ after.todo = Tail(before.todo)
                 /\ UNCHANGED observers
        /\ ApplyFinish(t)
           => /\ observers'[Top(t).id] =
                    Top(t).kept \o (IF Top(t).id \in DOMAIN observers
                                    THEN observers[Top(t).id] ELSE <<>>)
              /\ \A k \in DOMAIN observers \ {Top(t).id} :
                    k \in DOMAIN observers' /\ observers'[k] = observers[k]
              /\ DOMAIN observers' = DOMAIN observers \cup {Top(t).id}

\* C17. Handler order in a notification pass: a pass takes the whole list of
\* the entity, invokes its handlers one by one from the front, keeps each one
\* that returns true in its place, and stores the kept handlers followed by
\* those registered for the entity during the pass; so every list stays in
\* registration order, and the engine itself leaves the lists of the other
\* entities as they are.
C17_HandlerOrder == [](C17_ListsOrdered) /\ [][C17_PassStep]_vars

\* A pass has been stored that kept an old handler and appended one that was
\* registered during the pass.
C17_Witness ==
    \E id \in DOMAIN observers :
        /\ Len(observers[id]) = 2
        /\ ~observers[id][1].inpass
        /\ observers[id][2].inpass
        /\ \A f \in Frames : f.k # "apply"

\* The effects of entity id that wait in the queue.
Queued(q, id) == Cardinality({i \in 1..Len(q) : q[i] = id})

C18_FlushTurn ==
    \A t \in Threads :
        (FlushEffects(t) /\ ~LoopEnds(t))
        => LET id == front(pending_effects) IN
           /\ Queued(pending_effects', id) = Queued(pending_effects, id) - 1
           /\ \A k \in EntityIds \ {id} :
                 Queued(pending_effects', k) = Queued(pending_effects, k)
           /\ Len(raised') = Len(raised) - 1
           /\ IF id \in DOMAIN observers
              THEN /\ Len(stack'[t]) = Len(stack[t]) + 1
                   /\ stack'[t][Len(stack'[t])].k = "apply"
                   /\ stack'[t][Len(stack'[t])].id = id
                   /\ stack'[t][Len(stack'[t])].todo = observers[id]
              ELSE UNCHANGED <<observers, stack, entities>>

\* C18. Notifications are not coalesced: every turn of the loop of
\* flush_effects consumes one queued Notify and no other, and runs one pass
\* over the whole handler list of its entity, so k queued Notify(A) give k
\* passes and each handler of A is invoked k times; a Notify for an entity
\* without a handler list is consumed, invokes nothing and adds no entry to the
\* registry.
C18_NotCoalesced == [][C18_FlushTurn]_vars

\* Entity A notified twice before the flush: the pass of the first Notify is
\* running and the second one waits at the front of the queue.
C18_Witness ==
    \E t \in Threads :
        /\ In(t, {"apply"})
        /\ Top(t).todo # <<>>
        /\ ~Top(t).eff.during
        /\ pending_effects # <<>>
        /\ front(pending_effects) = Top(t).id
        /\ ~raised[1].during

C19_UpdateWindowStep ==
    /\ \A t \in Threads, w \in WindowIds :
          UpdateWindow(t, w)
          => /\ (last_err' = "window not found") <=> (w \notin DOMAIN windows)
             /\ (w \in DOMAIN windows /\ windows[w] = "None")
                => /\ fault' = [via |-> "update_window", why |-> "window checked out"]
                   /\ \A f \in Frames' : f.k # "win"
    /\ last_err' = "window not found"
       => \E t \in Threads, w \in WindowIds \ DOMAIN windows : UpdateWindow(t, w)

\* C19. update_window returns the 'window not found' error only for an id
\* that has no slot; for a slot that exists and is empty, because an enclosing
\* update_window holds the window or because open_window's closure has not
\* stored it yet, the call ends in the fatal fault and its closure is not run.
C19_EmptyWindowSlotFaults == [][C19_UpdateWindowStep]_vars

\* The process has ended in the fault of an update_window on an empty slot.
C19_Witness == fault = [via |-> "update_window", why |-> "window checked out"]

\* A handler, or a closure it runs, raises an effect while flush_effects drains.
NotifyInFlush == \E t \in Threads : Notify(t) /\ Flushing(t)

\* A pass ends with an effect in the queue for an entity that has handlers:
\* its handlers, or the passes before it, have raised one that will start a
\* further pass.
PassLeavesEffect ==
    \A t \in Threads :
        ApplyFinish(t)
        => \E i \in 1..Len(pending_effects) : pending_effects[i] \in DOMAIN observers'

PassRunning == \E f \in Frames : f.k = "apply"

C20_Terminates ==
    (<>[][~NotifyInFlush]_vars)
    => \A t \in Threads : Flushing(t) ~> ~Flushing(t)

C20_CycleNeverEnds ==
    (<>[][PassLeavesEffect]_vars)
    => (<>[]~PassRunning \/ <>[]Flushing(MainThread))

\* C20. Flush termination: if from some point on no effect is raised while
\* flush_effects drains, every flush_effects call returns (with the queue
\* empty, the loop has no other exit); if from some point on every pass ends
\* with an effect queued for an entity that has handlers, as when the handlers
\* of A raise Notify(A) again directly or through other handlers, and passes
\* go on, the call that runs them never returns.
C20_FlushTermination == C20_Terminates /\ C20_CycleNeverEnds

\* The handler of A has raised Notify(A) during the pass of A: the pass is at
\* its end and the new effect is at the front of the queue.
C20_Witness ==
    \E t \in Threads :
        /\ In(t, {"apply"})
        /\ Top(t).todo = <<>>
        /\ Top(t).kept # <<>>
        /\ pending_effects # <<>>
        /\ front(pending_effects) = Top(t).id
        /\ raised[1].during

====
